---- MODULE Spec2Model ----
(***************************************************************************)
(* The SQLite connector (src/src/connector/sqlite.rs): a bounded r2d2 pool *)
(* of in-memory connections, the attach/detach emulation of named          *)
(* databases, and with_connection / with_transaction on top of it.         *)
(* The capability context (context.rs) is modelled as a record.            *)
(***************************************************************************)
EXTENDS Integers, Sequences, FiniteSets, TLC

\* ---------------------------------------------------------------- bounds
NumCallers == 2       \* concurrent callers, each making one call
MaxLimit == 1         \* largest connection_limit handed to Sqlite::new
MaxStmts == 2         \* statements one operation sequence executes at most
MaxParams == 3        \* bind values of a raw query at most
MaxUrlLen == 3        \* tokens of a connection string at most
NumRequests == 2      \* logical requests, each building one Context
MaxInsertRows == 2    \* largest insert-row limit a descriptor reports

\* -------------------------------------------------------------- constants
TryFromConnectionLimit == 10   \* sqlite.rs:92
DescriptorMaxBind == 2         \* the descriptor's max_bind_values()

Callers == 1..NumCallers
Conns == 1..MaxLimit
NoConn == 0
DbNames == {"test"}            \* logical schema names callers ask for

\* Option<T>: None is <<>>, Some(x) is <<x>>
None == <<>>
Some(x) == <<x>>

\* crate::Result<T>
Ok(v) == [ok |-> TRUE, v |-> v]
Err(e) == [ok |-> FALSE, v |-> e]
Unset == [ok |-> FALSE, v |-> "unset"]

FVals == {"v1"}                \* success values an operation sequence returns
FErrs == {"e1"}                \* errors an operation sequence returns

VARIABLES
  sqlite,        \* the connector: file_path, connection_limit, test_mode
  idle,          \* pool: the connections not checked out
  attached,      \* per connection: names in PRAGMA database_list
  fileRows,      \* rows committed to the backing file at file_path
  pending,       \* per connection: rows written by the open transaction
  pc,            \* per caller: position in with_connection_internal
  call,          \* per caller: the call it makes (kind, db, params)
  held,          \* per caller: the PooledConnection it owns, or NoConn
  n,             \* per caller: statements its operation sequence executed
  fres,          \* per caller: what the operation sequence f returned
  result,        \* per caller: `result` of with_connection_internal
  ret,           \* per caller: what the call returned to the caller
  tx,            \* per caller: its transaction: none, Open, Committed, RolledBack
  hist,          \* per caller: what was issued to the backend during the call
  url,           \* TryFrom<&str>: the connection string, a sequence of tokens
  dirs,          \* the paths that are existing directories
  built,         \* what try_from returned
  info,          \* the connection descriptor a request's Context borrows
  ctx,           \* per request: its Context, once built
  seen           \* per request: what schema_name() last returned

vars == <<sqlite, idle, attached, fileRows, pending, pc, call, held, n,
          fres, result, ret, tx, hist, url, dirs, built, info, ctx, seen>>

ctorVars == <<url, dirs, built>>

ctxVars == <<info, ctx, seen>>

Requests == 1..NumRequests

\* the connection descriptor the connector's own queries run under
ConnectionInfo ==
  [schema_name |-> "test", max_insert_rows |-> None,
   max_bind_values |-> DescriptorMaxBind]

\* no request has built a Context
NoContexts ==
  /\ info = ConnectionInfo
  /\ ctx = [r \in Requests |-> None]
  /\ seen = [r \in Requests |-> None]

\* Sqlite::new: the pool holds connection_limit in-memory connections
Sqlite_new(file_path, connection_limit, test_mode) ==
  [file_path |-> file_path, connection_limit |-> connection_limit,
   test_mode |-> test_mode]

PoolConns == 1..sqlite.connection_limit

\* no connector yet
NoSqlite == Sqlite_new(<<>>, 0, FALSE)

\* crate::Result<Sqlite> of try_from: Ok(Sqlite), Err(DatabaseUrlIsInvalid(url)),
\* or the error of the pool builder
NotBuilt == [status |-> "none", arg |-> <<>>]
BuiltOk == [status |-> "Ok", arg |-> <<>>]
DatabaseUrlIsInvalid(u) == [status |-> "DatabaseUrlIsInvalid", arg |-> u]
PoolBuildErr == [status |-> "PoolErr", arg |-> <<>>]

NoCall == [kind |-> "none", db |-> "main", params |-> 0]
NoHist == [attach |-> FALSE, commit |-> FALSE, detach |-> 0, backend |-> FALSE,
           query |-> FALSE, foreign_keys |-> FALSE]

Init ==
  /\ \E limit \in 1..MaxLimit, test_mode \in BOOLEAN :
       sqlite = Sqlite_new("db/test.db", limit, test_mode)
  /\ idle = PoolConns
  /\ attached = [k \in Conns |-> {"main"}]
  /\ fileRows = {}
  /\ pending = [k \in Conns |-> {}]
  /\ pc = [c \in Callers |-> "idle"]
  /\ call = [c \in Callers |-> NoCall]
  /\ held = [c \in Callers |-> NoConn]
  /\ n = [c \in Callers |-> 0]
  /\ fres = [c \in Callers |-> Unset]
  /\ result = [c \in Callers |-> Unset]
  /\ ret = [c \in Callers |-> Unset]
  /\ tx = [c \in Callers |-> "none"]
  /\ hist = [c \in Callers |-> NoHist]
  /\ url = <<>> /\ dirs = {} /\ built = NotBuilt
  /\ NoContexts

\* ------------------------------------------------------------ self.pool.get()?
\* mutant: pool.get() hands out any connection of the pool, idle or not
Candidates_Any == PoolConns

\* the connections pool.get() may hand out: the idle ones
Candidates == idle

\* mutant: the connection handed out stays on the idle list
Checkout_StaysIdle(c, k) ==
  /\ held' = [held EXCEPT ![c] = k]
  /\ idle' = idle
  /\ pc' = [pc EXCEPT ![c] = "attach"]

Checkout(c, k) ==
  /\ held' = [held EXCEPT ![c] = k]
  /\ idle' = idle \ {k}
  /\ pc' = [pc EXCEPT ![c] = "attach"]

\* entry of with_connection_internal and the first attempt of pool.get():
\* an idle connection is handed out, or the caller starts waiting
StartCall(c, kind, db, params) ==
  /\ pc[c] = "idle"
  /\ call' = [call EXCEPT ![c] = [kind |-> kind, db |-> db, params |-> params]]
  /\ IF Candidates # {}
       THEN \E k \in Candidates : Checkout(c, k)
       ELSE /\ pc' = [pc EXCEPT ![c] = "wait"]
            /\ UNCHANGED <<held, idle>>
  /\ UNCHANGED <<sqlite, attached, fileRows, pending, n, fres, result,
                 ret, tx, hist, ctorVars, ctxVars>>

\* Database::with_connection: with_connection_internal(db, |c| f(c))
WithConnection(c) == \E db \in DbNames : StartCall(c, "conn", db, 0)

\* Transactional::with_transaction
WithTransaction(c) == \E db \in DbNames : StartCall(c, "tx", db, 0)

\* params.len() of a raw query: none, as many as the descriptor allows, and
\* the most a caller passes
ParamCounts == {0, DescriptorMaxBind, MaxParams}

\* Database::query_on_raw_connection: with_connection(db, |conn| conn.query_raw(sql, params))
QueryOnRawConnection(c) ==
  \E db \in DbNames, np \in ParamCounts : StartCall(c, "raw", db, np)

\* a waiting pool.get() is handed a connection that was put back
PoolWake(c) ==
  /\ pc[c] = "wait"
  /\ \E k \in Candidates : Checkout(c, k)
  /\ UNCHANGED <<sqlite, attached, fileRows, pending, call, n, fres,
                 result, ret, tx, hist, ctorVars, ctxVars>>

\* the wait of pool.get() runs into the pool's connection timeout: `?` returns
PoolTimeout(c) ==
  /\ pc[c] = "wait"
  /\ ret' = [ret EXCEPT ![c] = Err("PoolTimeout")]
  /\ pc' = [pc EXCEPT ![c] = "exit"]
  /\ UNCHANGED <<sqlite, idle, attached, fileRows, pending, call, held, n,
                 fres, result, tx, hist, ctorVars, ctxVars>>

\* ------------------------------------------------------------ attach_database
\* PRAGMA database_list, column 1, collected into a HashSet
Databases(k) == attached[k]

\* mutant: ATTACH is issued without looking at the database list
MustAttach_Always(databases, db_name) == TRUE

\* if !databases.contains(db_name)
MustAttach(databases, db_name) == db_name \notin databases

\* SQLite's ATTACH DATABASE ? AS ?: a name in use is refused
AttachRefused(k, db_name) == db_name \in attached[k]

AttachOutcomes == {"ok", "list_err", "attach_err", "pragma_err"}

\* mutant: a failed setup falls through to the scope exit
OnSetupError_FallsThrough == "teardown"

\* self.attach_database(&mut conn, db)?: on Err the `?` leaves
\* with_connection_internal at once
OnSetupError == "exit"

\* mutant: the pragma is part of the attach branch
IssuesPragma_WithAttach(must) == must

\* conn.execute("PRAGMA foreign_keys = ON", NO_PARAMS)? follows the `if`,
\* whichever way the `if` went
IssuesPragma(must) == TRUE

AttachDatabase(c) ==
  /\ pc[c] = "attach"
  /\ LET k == held[c]
         db == call[c].db
         must == MustAttach(Databases(k), db)
         fail(e) == /\ ret' = [ret EXCEPT ![c] = Err(e)]
                    /\ pc' = [pc EXCEPT ![c] = OnSetupError]
         next == /\ pc' = [pc EXCEPT ![c] =
                             IF call[c].kind \in {"tx", "rawtx"}
                               THEN "begin" ELSE "f"]
                 /\ UNCHANGED ret
     IN \E o \in AttachOutcomes :
          IF o = "list_err"
            THEN /\ fail("ListErr")
                 /\ hist' = [hist EXCEPT ![c].backend = TRUE]
                 /\ UNCHANGED attached
            ELSE /\ hist' = [hist EXCEPT
                            ![c].backend = TRUE,
                            ![c].attach = must,
                            ![c].foreign_keys =
                              /\ IssuesPragma(must)
                              /\ o = "ok"
                              /\ ~(must /\ AttachRefused(k, db))]
                 /\ IF must /\ AttachRefused(k, db)
                      THEN fail("DupAttach") /\ UNCHANGED attached
                    ELSE IF must /\ o = "attach_err"
                      THEN fail("AttachErr") /\ UNCHANGED attached
                    ELSE /\ ~must => o # "attach_err"
                         /\ ~IssuesPragma(must) => o # "pragma_err"
                         /\ attached' = [attached EXCEPT ![k] = @ \cup {db}]
                         /\ IF o = "pragma_err" THEN fail("PragmaErr") ELSE next
  /\ UNCHANGED <<sqlite, idle, fileRows, pending, call, held, n, fres,
                 result, tx, ctorVars, ctxVars>>

\* ------------------------------------------------------------ with_transaction
\* let tx = conn.transaction()?  (inside the closure given to with_connection_internal)
Transaction(c) ==
  /\ pc[c] = "begin"
  /\ \E began \in BOOLEAN :
       IF began
         THEN /\ tx' = [tx EXCEPT ![c] = "Open"]
              /\ pc' = [pc EXCEPT ![c] = "f"]
              /\ UNCHANGED result
         ELSE /\ result' = [result EXCEPT ![c] = Err("BeginErr")]
              /\ pc' = [pc EXCEPT ![c] = "teardown"]
              /\ UNCHANGED tx
  /\ UNCHANGED <<sqlite, idle, attached, fileRows, pending, call, held, n,
                 fres, ret, hist, ctorVars, ctxVars>>

\* the rows of the n-th statement of caller c's operation sequence
Row(c, i) == <<c, i>>
RowsOf(c) == {Row(c, i) : i \in 1..n[c]}

\* committed rows of a scope on the logical schema land in the file that
\* attach_database attached under that name (self.file_path)
StoreRows(rows) == fileRows' = fileRows \cup rows

\* one statement of f succeeds: autocommitted on a raw connection, held back
\* by an open transaction (a failed statement changes nothing)
Stmt(c) ==
  /\ pc[c] = "f"
  /\ call[c].kind \in {"conn", "tx"}
  /\ n[c] < MaxStmts
  /\ n' = [n EXCEPT ![c] = @ + 1]
  /\ LET k == held[c]
         row == Row(c, n[c] + 1)
     IN IF call[c].kind = "tx"
          THEN /\ pending' = [pending EXCEPT ![k] = @ \cup {row}]
               /\ UNCHANGED fileRows
          ELSE /\ StoreRows({row})
               /\ UNCHANGED pending
  /\ UNCHANGED <<sqlite, idle, attached, pc, call, held, fres, result, ret, tx,
                 hist, ctorVars, ctxVars>>

FResults == {Ok(v) : v \in FVals} \cup {Err(e) : e \in FErrs}

\* mutant: the commit is issued whatever f returned
CommitDecision_Always(r) == TRUE

\* if result.is_ok() { ... tx.commit()?; }
CommitDecision(r) == r.ok

\* what a rollback leaves of the transaction's writes
AfterRollback(rows) == {}

\* let result = f(&mut connection_like) in the closure of with_connection:
\* the closure returns what f returned
FReturn(c) ==
  /\ pc[c] = "f"
  /\ call[c].kind = "conn"
  /\ \E r \in FResults :
       /\ fres' = [fres EXCEPT ![c] = r]
       /\ result' = [result EXCEPT ![c] = r]
  /\ pc' = [pc EXCEPT ![c] = "teardown"]
  /\ UNCHANGED <<sqlite, idle, attached, fileRows, pending, call, held, n,
                 ret, tx, hist, ctorVars, ctxVars>>

\* mutant: a transaction that goes out of scope uncommitted stays open
TxAfterDrop_StaysOpen(state) == state

\* the Transaction `tx` goes out of scope without a successful commit: its
\* Drop rolls it back
TxAfterDrop(state) == IF state = "Open" THEN "RolledBack" ELSE state

\* tx.commit()?: on success the writes land and `result` is returned; on
\* failure `?` returns the commit error and the dropped transaction rolls back
Commit(c, committed) ==
  LET k == held[c]
  IN /\ hist' = [hist EXCEPT ![c].commit = TRUE]
     /\ pending' = [pending EXCEPT ![k] = {}]
     /\ IF committed
          THEN /\ StoreRows(pending[k])
               /\ tx' = [tx EXCEPT ![c] = "Committed"]
               /\ result' = [result EXCEPT ![c] = fres'[c]]
          ELSE /\ StoreRows(AfterRollback(pending[k]))
               /\ tx' = [tx EXCEPT ![c] = TxAfterDrop(@)]
               /\ result' = [result EXCEPT ![c] = Err("CommitErr")]

\* f failed: the closure returns `result`, connection_like (the transaction)
\* is dropped and rolls back; the outcome of that rollback is discarded
DropTransaction(c) ==
  LET k == held[c]
  IN /\ StoreRows(AfterRollback(pending[k]))
     /\ pending' = [pending EXCEPT ![k] = {}]
     /\ tx' = [tx EXCEPT ![c] = TxAfterDrop(@)]
     /\ result' = [result EXCEPT ![c] = fres'[c]]
     /\ UNCHANGED hist

\* let result = f(&mut connection_like) in the closure of with_transaction,
\* and the rest of that closure: commit if result.is_ok(), return result
FReturnTx(c) ==
  /\ pc[c] = "f"
  /\ call[c].kind = "tx"
  /\ \E r \in FResults :
       /\ fres' = [fres EXCEPT ![c] = r]
       /\ IF CommitDecision(r)
            THEN \E committed \in BOOLEAN : Commit(c, committed)
            ELSE DropTransaction(c)
  /\ pc' = [pc EXCEPT ![c] = "teardown"]
  /\ UNCHANGED <<sqlite, idle, attached, call, held, n, ret, ctorVars, ctxVars>>

\* ------------------------------------------------------------ capability context
\* mutant: an absent insert-row limit is stored as the number zero
Context_new_Sentinel(connection_info, traceparent) ==
  [connection_info |-> connection_info,
   traceparent |-> traceparent,
   max_insert_rows |-> IF connection_info.max_insert_rows = None
                         THEN Some(0) ELSE connection_info.max_insert_rows,
   max_bind_values |-> Some(connection_info.max_bind_values)]

\* Context::new
Context_new(connection_info, traceparent) ==
  [connection_info |-> connection_info,
   traceparent |-> traceparent,
   max_insert_rows |-> connection_info.max_insert_rows,
   max_bind_values |-> Some(connection_info.max_bind_values)]

\* Context::schema_name
Context_schema_name(self) == self.connection_info.schema_name

\* the bind-value check of raw_query: the count against the context's limit
LimitExceeded(self, count) ==
  self.max_bind_values # None /\ count > self.max_bind_values[1]

\* mutant: a query that matches no row is answered with an error
RowsResult_EmptyIsError(rows) == IF rows = {} THEN Err("NoRows") ELSE Ok("rows")

\* the ResultSet of a query the backend answered: empty is a result
RowsResult(rows) == IF rows = {} THEN Ok("empty") ELSE Ok("rows")

\* the rows a query of caller c matches: those visible under its logical
\* name on its connection, and in a transaction the ones it wrote itself
Matched(c) ==
  (IF call[c].db \in attached[held[c]] THEN fileRows ELSE {}) \cup pending[held[c]]

\* query_raw(sql, params) on either variant of the handle: the bind-value
\* check, then the backend, which answers or fails
QueryRawResult(c, answered) ==
  IF LimitExceeded(Context_new(ConnectionInfo, None), call[c].params)
    THEN Err("LimitExceeded")
  ELSE IF answered THEN RowsResult(Matched(c)) ELSE Err("QueryErr")

\* conn.query_raw(&sql, &params), the closure of query_on_raw_connection
QueryRaw(c) ==
  /\ pc[c] = "f"
  /\ call[c].kind = "raw"
  /\ \E answered \in BOOLEAN :
       LET r == QueryRawResult(c, answered)
       IN /\ LimitExceeded(Context_new(ConnectionInfo, None), call[c].params)
               => answered
          /\ fres' = [fres EXCEPT ![c] = r]
          /\ result' = [result EXCEPT ![c] = r]
          /\ hist' = [hist EXCEPT ![c].query = (r.v # "LimitExceeded")]
  /\ pc' = [pc EXCEPT ![c] = "teardown"]
  /\ UNCHANGED <<sqlite, idle, attached, fileRows, pending, call, held, n,
                 ret, tx, ctorVars, ctxVars>>

\* with_transaction(db, |transaction| transaction.query_raw(sql, params))
QueryInTransaction(c) ==
  \E db \in DbNames, np \in ParamCounts : StartCall(c, "rawtx", db, np)

\* transaction.query_raw(&sql, &params): f runs its query on the open
\* transaction and is about to return what the query returned
QueryRawTx(c) ==
  /\ pc[c] = "f"
  /\ call[c].kind = "rawtx"
  /\ \E answered \in BOOLEAN :
       LET r == QueryRawResult(c, answered)
       IN /\ LimitExceeded(Context_new(ConnectionInfo, None), call[c].params)
               => answered
          /\ fres' = [fres EXCEPT ![c] = r]
          /\ hist' = [hist EXCEPT ![c].query = (r.v # "LimitExceeded")]
  /\ pc' = [pc EXCEPT ![c] = "fret"]
  /\ UNCHANGED <<sqlite, idle, attached, fileRows, pending, call, held, n,
                 result, ret, tx, ctorVars, ctxVars>>

\* the rest of the closure of with_transaction once that f has returned
CloseQueryTx(c) ==
  /\ pc[c] = "fret"
  /\ call[c].kind = "rawtx"
  /\ UNCHANGED fres
  /\ IF CommitDecision(fres[c])
       THEN \E committed \in BOOLEAN : Commit(c, committed)
       ELSE DropTransaction(c)
  /\ pc' = [pc EXCEPT ![c] = "teardown"]
  /\ UNCHANGED <<sqlite, idle, attached, call, held, n, ret, ctorVars, ctxVars>>

\* ------------------------------------------------------------ scope exit
\* SQLite's DETACH DATABASE ?: main cannot be detached, nor a name not attached
DetachRefused(k, db_name) == db_name = "main" \/ db_name \notin attached[k]

\* mutant: the DETACH leaves the name on the connection
AfterDetach_Keeps(names, db_name) == names

\* the connection's database list after a DETACH DATABASE ? that succeeded
AfterDetach(names, db_name) == names \ {db_name}

\* if self.test_mode { ...; conn.execute("DETACH DATABASE ?", &[db])?; } result
ScopeReturn(test_mode, detached, r) ==
  IF test_mode /\ ~detached THEN Err("DetachErr") ELSE r

\* mutant: the scope exit never detaches
IssuesDetach_Never(self) == FALSE

\* mutant: the scope exit detaches in every configuration
IssuesDetach_Always(self) == TRUE

\* if self.test_mode { ... }: only the ephemeral configuration detaches
IssuesDetach(self) == self.test_mode

\* the end of with_connection_internal after f returned
Teardown(c) ==
  /\ pc[c] = "teardown"
  /\ LET k == held[c]
         db == call[c].db
     IN IF IssuesDetach(sqlite)
          THEN \E detached \in BOOLEAN :
                 /\ DetachRefused(k, db) => ~detached
                 /\ hist' = [hist EXCEPT ![c].detach = @ + 1]
                 /\ attached' = IF detached
                                  THEN [attached EXCEPT ![k] = AfterDetach(@, db)]
                                  ELSE attached
                 /\ ret' = [ret EXCEPT ![c] = ScopeReturn(TRUE, detached, result[c])]
          ELSE /\ ret' = [ret EXCEPT ![c] = ScopeReturn(FALSE, FALSE, result[c])]
               /\ UNCHANGED <<hist, attached>>
  /\ pc' = [pc EXCEPT ![c] = "exit"]
  /\ UNCHANGED <<sqlite, idle, fileRows, pending, call, held, n, fres,
                 result, tx, ctorVars, ctxVars>>

\* mutant: a dropped PooledConnection is not put back
PutBack_Leak(idleConns, k) == idleConns

\* the pool after a PooledConnection is dropped
PutBack(idleConns, k) == idleConns \cup {k}

\* the call returns `ret`: the PooledConnection, if one was checked out, goes
\* out of scope (at the return, or at the `?` that left early)
Release(c) ==
  /\ pc[c] = "exit"
  /\ idle' = IF held[c] = NoConn THEN idle ELSE PutBack(idle, held[c])
  /\ held' = [held EXCEPT ![c] = NoConn]
  /\ pc' = [pc EXCEPT ![c] = "done"]
  /\ call' = [call EXCEPT ![c] = NoCall]
  /\ n' = [n EXCEPT ![c] = 0]
  /\ fres' = [fres EXCEPT ![c] = Unset]
  /\ result' = [result EXCEPT ![c] = Unset]
  /\ ret' = [ret EXCEPT ![c] = Unset]
  /\ tx' = [tx EXCEPT ![c] = "none"]
  /\ hist' = [hist EXCEPT ![c] = NoHist]
  /\ UNCHANGED <<sqlite, attached, fileRows, pending, ctorVars, ctxVars>>

Next ==
  \E c \in Callers :
    \/ WithConnection(c)
    \/ WithTransaction(c)
    \/ PoolWake(c)
    \/ PoolTimeout(c)
    \/ AttachDatabase(c)
    \/ Transaction(c)
    \/ Stmt(c)
    \/ FReturn(c)
    \/ FReturnTx(c)
    \/ Teardown(c)
    \/ Release(c)

NextRaw ==
  \E c \in Callers :
    \/ QueryOnRawConnection(c)
    \/ QueryInTransaction(c)
    \/ PoolWake(c)
    \/ PoolTimeout(c)
    \/ AttachDatabase(c)
    \/ Transaction(c)
    \/ QueryRaw(c)
    \/ QueryRawTx(c)
    \/ CloseQueryTx(c)
    \/ Teardown(c)
    \/ Release(c)

Spec == Init /\ [][Next]_vars

SpecRaw == Init /\ [][NextRaw]_vars

\* ------------------------------------------------------------ TryFrom<&str>
\* a connection string is a sequence of tokens; "file:" is the scheme marker
UrlTokens == {"file:", "d", "f"}
Urls == UNION {[1..len -> UrlTokens] : len \in 0..MaxUrlLen}
DirCandidates == {<<"d">>, <<"file:", "d">>}

\* mutant: the scheme marker is not removed
TrimStartMatches_Keeps(str, pat) == str

\* str::trim_start_matches: every repetition of the prefix is removed
RECURSIVE TrimStartMatches(_, _)
TrimStartMatches(str, pat) ==
  IF Len(str) > 0 /\ Head(str) = pat
    THEN TrimStartMatches(Tail(str), pat)
    ELSE str

\* PathBuf::is_dir
IsDir(path) == path \in dirs

InitCtor ==
  /\ url \in Urls
  /\ dirs \in SUBSET DirCandidates
  /\ built = NotBuilt
  /\ NoContexts
  /\ sqlite = NoSqlite
  /\ idle = {}
  /\ attached = [k \in Conns |-> {"main"}]
  /\ fileRows = {}
  /\ pending = [k \in Conns |-> {}]
  /\ pc = [c \in Callers |-> "idle"]
  /\ call = [c \in Callers |-> NoCall]
  /\ held = [c \in Callers |-> NoConn]
  /\ n = [c \in Callers |-> 0]
  /\ fres = [c \in Callers |-> Unset]
  /\ result = [c \in Callers |-> Unset]
  /\ ret = [c \in Callers |-> Unset]
  /\ tx = [c \in Callers |-> "none"]
  /\ hist = [c \in Callers |-> NoHist]

\* impl TryFrom<&str> for Sqlite, with the Sqlite::new it ends in
TryFrom ==
  /\ built = NotBuilt
  /\ LET normalized == TrimStartMatches(url, "file:")
     IN IF IsDir(normalized)
          THEN /\ built' = DatabaseUrlIsInvalid(url)
               /\ UNCHANGED <<sqlite, idle>>
          ELSE \E pool_ok \in BOOLEAN :
                 IF pool_ok
                   THEN /\ sqlite' = Sqlite_new(normalized, TryFromConnectionLimit, FALSE)
                        /\ idle' = 1..TryFromConnectionLimit
                        /\ built' = BuiltOk
                   ELSE /\ built' = PoolBuildErr
                        /\ UNCHANGED <<sqlite, idle>>
  /\ UNCHANGED <<attached, fileRows, pending, pc, call, held, n, fres, result,
                 ret, tx, hist, url, dirs, ctxVars>>

NextCtor == TryFrom

SpecCtor == InitCtor /\ [][NextCtor]_vars

\* ------------------------------------------------------------ Context of a request
\* the descriptors a backend may hand over: a schema name, an insert-row
\* limit that may be absent, and a bind-value limit
Descriptors ==
  [schema_name : {"test", "other"},
   max_insert_rows : {None} \cup {Some(i) : i \in 0..MaxInsertRows},
   max_bind_values : 1..DescriptorMaxBind]

TraceParents == {None, Some("trace")}

InitCtx ==
  /\ info \in Descriptors
  /\ ctx = [r \in Requests |-> None]
  /\ seen = [r \in Requests |-> None]
  /\ \E limit \in 1..MaxLimit : sqlite = Sqlite_new("db/test.db", limit, FALSE)
  /\ idle = PoolConns
  /\ attached = [k \in Conns |-> {"main"}]
  /\ fileRows = {}
  /\ pending = [k \in Conns |-> {}]
  /\ pc = [c \in Callers |-> "idle"]
  /\ call = [c \in Callers |-> NoCall]
  /\ held = [c \in Callers |-> NoConn]
  /\ n = [c \in Callers |-> 0]
  /\ fres = [c \in Callers |-> Unset]
  /\ result = [c \in Callers |-> Unset]
  /\ ret = [c \in Callers |-> Unset]
  /\ tx = [c \in Callers |-> "none"]
  /\ hist = [c \in Callers |-> NoHist]
  /\ url = <<>> /\ dirs = {} /\ built = NotBuilt

\* a request builds its Context over the descriptor: Context::new
NewContext(r) ==
  /\ ctx[r] = None
  /\ \E traceparent \in TraceParents :
       ctx' = [ctx EXCEPT ![r] = Some(Context_new(info, traceparent))]
  /\ UNCHANGED <<info, seen, sqlite, idle, attached, fileRows, pending, pc,
                 call, held, n, fres, result, ret, tx, hist, ctorVars>>

\* an operation of the request asks its Context for the schema name
SchemaName(r) ==
  /\ ctx[r] # None
  /\ seen' = [seen EXCEPT ![r] = Some(Context_schema_name(ctx[r][1]))]
  /\ UNCHANGED <<info, ctx, sqlite, idle, attached, fileRows, pending, pc,
                 call, held, n, fres, result, ret, tx, hist, ctorVars>>

NextCtx == \E r \in Requests : NewContext(r) \/ SchemaName(r)

SpecCtx == InitCtx /\ [][NextCtx]_vars

\* ------------------------------------------------------------ derived views
\* the callers that own a checked-out connection
Holders == {c \in Callers : held[c] # NoConn}

\* the call of c has reached its return (`ret` is what the caller receives)
Returning(c) == pc[c] = "exit"

\* the rows a query against logical name db sees on connection k
Visible(k, db) == IF db \in attached[k] THEN fileRows ELSE {}

\* c is at the start of its scope: setup done, no statement executed yet
ScopeStart(c) == pc[c] \in {"begin", "f"} /\ n[c] = 0

\* ------------------------------------------------------------ C1
\* C1 (as claimed): in with_transaction a commit is issued iff f returned Ok;
\* f Ok and a successful commit end Committed with the caller receiving f's
\* value; f Err issues no commit and ends RolledBack; Committed and RolledBack
\* are terminal for the call.
C1_AtReturn ==
  \A c \in Callers :
    (Returning(c) /\ call[c].kind = "tx" /\ fres[c] # Unset) =>
      /\ hist[c].commit <=> fres[c].ok
      /\ (fres[c].ok /\ tx[c] = "Committed") => ret[c] = fres[c]
      /\ (fres[c].ok /\ result[c] = fres[c]) => tx[c] = "Committed"
      /\ ~fres[c].ok => tx[c] = "RolledBack"

C1_Terminal ==
  \A c \in Callers :
    (tx[c] \in {"Committed", "RolledBack"} /\ pc'[c] # "done") => tx'[c] = tx[c]

C1_CommitIffOk == [][C1_AtReturn' /\ C1_Terminal]_vars

\* ------------------------------------------------------------ C2
\* C2: a transaction is all-or-nothing: of the rows its operation sequence
\* wrote, the backing store holds all (the sequence succeeded and was
\* committed) or none (it failed, or the commit failed), never a part.
C2_AllOrNothing ==
  \A c \in Callers :
    call[c].kind = "tx" =>
      LET written == RowsOf(c)
          stored == written \cap fileRows
      IN /\ stored = {} \/ stored = written
         /\ stored # {} => (tx[c] = "Committed" /\ fres[c].ok)
         /\ (Returning(c) /\ tx[c] = "Committed") => stored = written
         /\ (Returning(c) /\ ~fres[c].ok) => stored = {}

C2_Witness ==
  \E c \in Callers :
    /\ Returning(c) /\ call[c].kind = "tx" /\ tx[c] = "Committed"
    /\ n[c] >= 2 /\ RowsOf(c) \subseteq fileRows

\* ------------------------------------------------------------ C3
\* C3 (as claimed): whenever the operation sequence of with_transaction
\* returns an error e, the call returns exactly e, in standard and in test
\* mode, whatever the rollback and the scope-exit DETACH do.
C3_OriginalFailureObserved ==
  \A c \in Callers :
    (Returning(c) /\ call[c].kind = "tx" /\ fres[c] \in {Err(e) : e \in FErrs})
      => ret[c] = fres[c]

\* ------------------------------------------------------------ C4
\* C4: with connection_limit N at most N connections are checked out; a
\* caller is past pool.get() only while it owns a connection; a call that
\* finds all N checked out starts waiting instead of failing at once, and a
\* waiting call goes on only with a connection that had been put back.
C4_AtMostN ==
  /\ Cardinality(Holders) <= sqlite.connection_limit
  /\ \A c \in Callers :
       pc[c] \in {"attach", "begin", "f", "teardown"} => held[c] # NoConn

C4_WaitsForRelease ==
  \A c \in Callers :
    /\ (pc[c] = "idle" /\ pc'[c] # "idle" /\ idle = {}) => pc'[c] = "wait"
    /\ (pc[c] = "idle" /\ pc'[c] # "idle") => ret'[c] = Unset
    /\ (pc[c] = "wait" /\ pc'[c] = "attach") => held'[c] \in idle

C4_BoundedPool == C4_AtMostN /\ [][C4_AtMostN' /\ C4_WaitsForRelease]_vars

C4_Witness ==
  /\ Cardinality(Holders) = sqlite.connection_limit
  /\ \E c \in Callers : pc[c] = "wait"

\* ------------------------------------------------------------ C5
\* C5: every connection of the pool is idle or owned by a caller still inside
\* its call; a call that has returned owns none, so once all calls have
\* returned the whole pool is idle again.
C5_AlwaysReleased ==
  /\ idle = PoolConns \ {held[c] : c \in Callers}
  /\ \A c \in Callers : pc[c] \in {"idle", "wait", "done"} => held[c] = NoConn
  /\ (\A c \in Callers : pc[c] = "done") => idle = PoolConns

C5_Witness ==
  /\ \A c \in Callers : pc[c] = "done"
  /\ idle = PoolConns
  /\ fileRows # {}

\* ------------------------------------------------------------ C6
\* C6: no two callers own the same checked-out connection, and a connection a
\* caller owns is not on the pool's idle list.
C6_ExclusiveOwnership ==
  \A c1 \in Callers :
    held[c1] # NoConn =>
      /\ held[c1] \notin idle
      /\ \A c2 \in Callers \ {c1} : held[c2] # held[c1]

C6_Witness ==
  \E c1, c2 \in Callers :
    c1 # c2 /\ pc[c1] = "f" /\ held[c1] # NoConn /\ pc[c2] = "wait"

\* ------------------------------------------------------------ C7
\* C7: attach_database issues ATTACH only when the requested name is absent
\* from the connection's database list, so no call ever fails with a
\* duplicate-attachment error, however often the name is checked out on the
\* same connection.
C7_NoDuplicate == \A c \in Callers : ret[c] # Err("DupAttach")

C7_OnlyWhenAbsent ==
  \A c \in Callers :
    (~hist[c].attach /\ hist'[c].attach) => call[c].db \notin attached[held[c]]

C7_AttachIdempotent == [][C7_NoDuplicate' /\ C7_OnlyWhenAbsent]_vars

\* a checkout that found the name attached and skipped the ATTACH
C7_Witness ==
  \E c \in Callers :
    pc[c] \in {"begin", "f"} /\ hist[c].backend /\ ~hist[c].attach

C8_DetachedAtReturn ==
  \A c \in Callers :
    (sqlite.test_mode /\ Returning(c) /\ hist[c].detach = 1
       /\ ret[c] # Err("DetachErr"))
      => call[c].db \notin attached[held[c]]

C8_StartsOnTheFile ==
  \A c \in Callers :
    (sqlite.test_mode /\ ScopeStart(c)) => Visible(held[c], call[c].db) = fileRows

Suffixes(u) == {SubSeq(u, i, Len(u)) : i \in 1..(Len(u) + 1)}
StrippedPath(u) ==
  CHOOSE p \in Suffixes(u) :
    /\ Len(p) = 0 \/ Head(p) # "file:"
    /\ \A i \in 1..(Len(u) - Len(p)) : u[i] = "file:"

C10_LimitCheckedFirst ==
  \A c \in Callers :
    (Returning(c) /\ call[c].kind = "raw"
       /\ LimitExceeded(Context_new(ConnectionInfo, None), call[c].params))
      => /\ ret[c] = Err("LimitExceeded")
         /\ ~hist[c].backend
         /\ ~hist[c].query

C12_StandardKeepsAttachment ==
  [][ /\ \A c \in Callers : hist'[c].detach > 0 => sqlite.test_mode
      /\ ~sqlite.test_mode =>
           /\ \A k \in Conns : attached[k] \subseteq attached'[k]
           /\ \A c \in Callers :
                (pc[c] = "attach" /\ pc'[c] # "attach"
                   /\ call[c].db \in attached[held[c]])
                  => ~hist'[c].attach ]_vars

\* standard mode: a second scope runs f on the connection the first scope
\* attached and returned, without having issued an ATTACH
C12_Witness ==
  \E c \in Callers, c2 \in Callers :
    /\ ~sqlite.test_mode
    /\ pc[c2] = "done"
    /\ pc[c] = "f" /\ hist[c].backend /\ ~hist[c].attach
    /\ call[c].db \in attached[held[c]]

\* ------------------------------------------------------------ C13
\* C13: a connection goes back to the pool with no transaction open on it:
\* a scope that began one has it Committed or RolledBack before the release,
\* whether f failed, the commit failed or the begin itself failed, and an
\* idle connection carries no uncommitted write.
C13_NoOpenTxAtRelease ==
  /\ \A c \in Callers :
       /\ pc[c] \in {"teardown", "exit"} => tx[c] # "Open"
       /\ (pc[c] \in {"teardown", "exit"} /\ fres[c] # Unset
             /\ call[c].kind \in {"tx", "rawtx"})
            => tx[c] \in {"Committed", "RolledBack"}
       /\ tx[c] = "Open" => held[c] \in Conns \ idle
  /\ \A k \in idle : pending[k] = {}

\* a scope is about to release its connection after f failed with writes
\* made: the transaction is RolledBack and the connection carries no write
C13_Witness ==
  \E c \in Callers :
    /\ pc[c] = "exit" /\ call[c].kind = "tx" /\ n[c] > 0
    /\ ~fres[c].ok /\ fres[c] # Unset /\ tx[c] = "RolledBack"
    /\ pending[held[c]] = {}

\* ------------------------------------------------------------ C14
\* C14: the scope-exit DETACH is best effort: whether it succeeds or fails,
\* the call returns what the scope produced, so a scope whose f returned
\* Ok(v) (and whose commit, if any, succeeded) returns Ok(v).
C14_TeardownBestEffort ==
  \A c \in Callers :
    (Returning(c) /\ hist[c].detach > 0) => ret[c] = result[c]

\* ------------------------------------------------------------ C15
\* C15: a Context carries what its descriptor reported when it was built and
\* never changes afterwards: max_insert_rows is the descriptor's, absent when
\* the descriptor's is absent; max_bind_values is present and is the
\* descriptor's; schema_name() returns the descriptor's schema name.
C15_LimitsFixed ==
  [][ \A r \in Requests :
        /\ ctx[r] # None => ctx'[r] = ctx[r]
        /\ ctx'[r] # None =>
             LET c == ctx'[r][1]
             IN /\ c.max_insert_rows = info.max_insert_rows
                /\ info.max_insert_rows = None <=> c.max_insert_rows = None
                /\ c.max_bind_values = Some(info.max_bind_values)
                /\ Context_schema_name(c) = info.schema_name
        /\ seen'[r] # None => seen'[r] = Some(info.schema_name) ]_vars

\* a Context built over a descriptor without insert-row limit has been asked
\* for its schema name, next to one built by another request
C15_Witness ==
  \E r \in Requests : \E r2 \in Requests \ {r} :
    /\ ctx[r] # None /\ ctx[r][1].max_insert_rows = None
    /\ seen[r] = Some("other")
    /\ ctx[r2] # None

\* ------------------------------------------------------------ C16
\* C16: every checkout whose setup succeeded has executed PRAGMA foreign_keys
\* = ON on the connection, after the database list was read and the name is
\* attached and before f (or the begin) runs, whether the ATTACH was issued
\* or skipped.
C16_ForeignKeysOn ==
  \A c \in Callers :
    /\ (pc[c] \in {"begin", "f", "fret", "teardown"} \/ result[c] # Unset
          \/ fres[c] # Unset \/ tx[c] # "none")
         => hist[c].foreign_keys /\ hist[c].backend
    /\ pc[c] \in {"begin", "f", "fret"} => call[c].db \in attached[held[c]]
    /\ hist[c].foreign_keys => held[c] # NoConn

\* f runs with the pragma executed on a connection whose ATTACH was skipped
C16_Witness ==
  \E c \in Callers :
    /\ pc[c] = "f" /\ hist[c].foreign_keys /\ ~hist[c].attach

SetupErrors ==
  {Err("PoolTimeout"), Err("ListErr"), Err("AttachErr"), Err("DupAttach"),
   Err("PragmaErr")}

\* C18: a call whose checkout or setup failed (pool.get, PRAGMA
\* database_list, ATTACH, PRAGMA foreign_keys) returns that error and has
\* neither invoked f, nor begun a transaction, nor issued a DETACH; and a
\* call that returns without having reached f returns such an error.
C18_SetupFailureStops ==
  \A c \in Callers :
    /\ ret[c] \in SetupErrors =>
         /\ fres[c] = Unset /\ n[c] = 0 /\ result[c] = Unset
         /\ tx[c] = "none" /\ ~hist[c].commit
         /\ hist[c].detach = 0
         /\ ~hist[c].foreign_keys
         /\ ret[c] = Err("PoolTimeout") <=> held[c] = NoConn
    /\ (ret[c] # Unset /\ ~hist[c].foreign_keys) => ret[c] \in SetupErrors
    /\ (pc[c] \in {"begin", "f", "fret", "teardown"}) => ret[c] = Unset

\* in the ephemeral configuration a call returns the error of the pragma
\* that failed after its ATTACH succeeded, with no DETACH issued
C18_Witness ==
  \E c \in Callers :
    /\ sqlite.test_mode /\ Returning(c)
    /\ ret[c] = Err("PragmaErr") /\ hist[c].attach
    /\ call[c].db \in attached[held[c]]
    /\ hist[c].detach = 0

\* ------------------------------------------------------------ C19
\* C19: when f returned Ok and the commit failed, with_transaction returns
\* the commit error, never f's success value; and it returns Ok(v) only for
\* a transaction that reached Committed.
C19_CommitErrorReturned ==
  \A c \in Callers :
    (Returning(c) /\ call[c].kind = "tx") =>
      /\ (fres[c].ok /\ hist[c].commit /\ tx[c] = "RolledBack")
           => ret[c] = Err("CommitErr")
      /\ ret[c].ok => tx[c] = "Committed" /\ ret[c] = fres[c]

====
